---- MODULE Spec2Model ----
(***************************************************************************)
(* Ledger engine of bolt-tracker (src/src/App.tsx): the trade transition   *)
(* function applyTradeMath, the replay recomputeAll, and the handlers that *)
(* mutate the `trades` table of the store (add, edit, undo, reset,         *)
(* recompute) together with the local React state they read and write.     *)
(*                                                                         *)
(* Amounts are integers in cents (the stake input has step 0.01) and       *)
(* multipliers are integers in hundredths (the multiplier input has step   *)
(* 0.01).  The inputs of the model are drawn so that every product         *)
(* stake * multiplier * 0.3 is a whole number of cents; the rounding of    *)
(* binary floating point is not part of the model.  A row carries the id,  *)
(* created_at, the three inputs the engine reads (stake, multiplier,       *)
(* outcome), the five derived fields and trade_number; trade_date and      *)
(* description, which the handlers copy and never read, are left out.      *)
(* The table starts empty.                                                 *)
(***************************************************************************)
EXTENDS Integers, Sequences, FiniteSets, TLC

VARIABLES
    store,         \* rows of the `trades` table (a set of Trade records)
    trades,        \* React state `trades`: the rows last loaded, newest first
    stats,         \* React state `stats`
    isLoading,     \* React state `isLoading`
    editingTrade,  \* React state `editingTrade` (the id of the trade, or NoTrade)
    alert,         \* message of the last alert() of the operation in progress
    op,            \* per task: the handler invocation in flight, at its await
    args,          \* arguments of a call of applyTradeMath
    mathRes,       \* what that call returned
    hist,          \* argument of a call of recomputeAll
    rec1,          \* recomputeAll(hist)
    rec2,          \* recomputeAll(rec1.updated)
    nextId,        \* the identifier the store assigns to the next inserted row
    failures,      \* store calls that have answered with an error so far
    overlaps       \* handlers started while another was in flight so far

vars == <<store, trades, stats, isLoading, editingTrade, alert, op,
          args, mathRes, hist, rec1, rec2, nextId, failures, overlaps>>
ledgerVars == <<store, trades, stats, isLoading, editingTrade, alert, op,
                nextId, failures, overlaps>>
mathVars == <<args, mathRes>>
recVars == <<hist, rec1, rec2>>

----------------------------------------------------------------------------
(* Units and program constants *)

Cents == 100
MultScale == 100

Dollars(n) == n * Cents
Mult(whole, hundredths) == whole * MultScale + hundredths

STARTING_ROLL_POT == 0
STARTING_BANK_TOTAL == Dollars(3000)

NoTrade == 0
NoArgs == [prevRoll |-> 0, prevBank |-> 0, stake |-> 0, multiplier |-> 0,
           outcome |-> "none"]
None == [ok |-> FALSE, reason |-> "not called"]

\* alert(text), and the alert of a rejected replay (lines 407 and 512),
\* `${text}: ${rec.reason}`, rec.reason being `Trade #${index}: ${reason}`
Alert(text) == [text |-> text, index |-> 0, reason |-> ""]
RejectionAlert(text, rec) == [text |-> text, index |-> rec.index, reason |-> rec.reason]
NoAlert == Alert("")

----------------------------------------------------------------------------
(* applyTradeMath: src/src/App.tsx 163-219 *)

\* stake * multiplier, the multiplier being in hundredths
Times(stake, multiplier) == (stake * multiplier) \div MultScale
\* x * 0.3 and x * 0.7
Times03(x) == (x * 3) \div 10
Times07(x) == (x * 7) \div 10

Reject(reason) == [ok |-> FALSE, reason |-> reason]

\* isSeedingTrade that takes a Roll Pot of exactly 0 for a rolling one
isSeedingTradeBelowZero(prevRoll) == prevRoll < 0

\* line 170
isSeedingTrade(prevRoll) == prevRoll <= 0

\* FirstFailure with the multiplier checked before the stake
FirstFailureMultiplierFirst(prevRoll, prevBank, stake, multiplier) ==
    IF multiplier <= Mult(1, 0) THEN "Multiplier must be > 1"
    ELSE IF stake <= 0 THEN "Stake must be > 0"
    ELSE IF prevRoll <= 0
         THEN IF stake > prevBank THEN "Stake cannot exceed Bank balance" ELSE ""
         ELSE IF stake > prevRoll THEN "Stake cannot exceed Roll Pot balance" ELSE ""

\* FirstFailure without the check of the stake against its capital source
FirstFailureNoBalanceCheck(prevRoll, prevBank, stake, multiplier) ==
    IF stake <= 0 THEN "Stake must be > 0"
    ELSE IF multiplier <= Mult(1, 0) THEN "Multiplier must be > 1"
    ELSE ""

\* lines 172-179: the reason of the first check that fails, "" when none does
FirstFailure(prevRoll, prevBank, stake, multiplier) ==
    IF stake <= 0 THEN "Stake must be > 0"
    ELSE IF multiplier <= Mult(1, 0) THEN "Multiplier must be > 1"
    ELSE IF isSeedingTrade(prevRoll)
         THEN IF stake > prevBank THEN "Stake cannot exceed Bank balance" ELSE ""
         ELSE IF stake > prevRoll THEN "Stake cannot exceed Roll Pot balance" ELSE ""

\* totalReturn as the profit alone, so that only the profit is split
totalReturnProfitOnly(stake, multiplier, outcome) ==
    IF outcome = "win" THEN Times(stake, multiplier) - stake ELSE 0

\* line 181
totalReturn(stake, multiplier, outcome) ==
    IF outcome = "win" THEN Times(stake, multiplier) ELSE 0

\* rollAllocation that gives the Roll Pot the share of the Bank
rollAllocationSameAsBank(outcome, return) ==
    IF outcome = "win" THEN Times03(return) ELSE 0

\* lines 183-184
bankAllocation(outcome, return) == IF outcome = "win" THEN Times03(return) ELSE 0
rollAllocation(outcome, return) == IF outcome = "win" THEN Times07(return) ELSE 0

\* newBank without the seeding case: the stake never leaves the Bank
newBankNeverSeeding(prevRoll, prevBank, stake, outcome, toBank) ==
    IF outcome = "win" THEN prevBank + toBank ELSE prevBank

\* newRoll that does not take the stake out of the Roll Pot on a win
newRollKeepsStake(prevRoll, stake, outcome, toRoll) ==
    IF outcome = "win"
    THEN prevRoll + toRoll
    ELSE IF prevRoll <= 0 THEN prevRoll ELSE prevRoll - stake

\* newBank that takes every stake out of the Bank
newBankAlwaysSeeding(prevRoll, prevBank, stake, outcome, toBank) ==
    IF outcome = "win" THEN prevBank - stake + toBank ELSE prevBank - stake

\* newRoll that takes every lost stake out of the Bank's side: the Roll Pot
\* is left as it was by a loss
newRollLossKept(prevRoll, stake, outcome, toRoll) ==
    IF outcome = "win"
    THEN IF prevRoll <= 0 THEN prevRoll + toRoll ELSE prevRoll - stake + toRoll
    ELSE prevRoll

\* lines 186-205
newBank(prevRoll, prevBank, stake, outcome, toBank) ==
    IF outcome = "win"
    THEN IF isSeedingTrade(prevRoll) THEN prevBank - stake + toBank
                                     ELSE prevBank + toBank
    ELSE IF isSeedingTrade(prevRoll) THEN prevBank - stake
                                     ELSE prevBank

newRoll(prevRoll, stake, outcome, toRoll) ==
    IF outcome = "win"
    THEN IF isSeedingTrade(prevRoll) THEN prevRoll + toRoll
                                     ELSE prevRoll - stake + toRoll
    ELSE IF isSeedingTrade(prevRoll) THEN prevRoll
                                     ELSE prevRoll - stake

\* profitLoss that reports a loss as 0
profitLossNoLoss(stake, outcome, return) ==
    IF outcome = "win" THEN return - stake ELSE 0

\* line 207
profitLoss(stake, outcome, return) ==
    IF outcome = "win" THEN return - stake ELSE 0 - stake

\* totalWealth that leaves the Roll Pot out
totalWealthBankOnly(roll, bank) == bank

\* line 209
totalWealth(roll, bank) == roll + bank

applyTradeMath(prevRoll, prevBank, stake, multiplier, outcome) ==
    LET failure == FirstFailure(prevRoll, prevBank, stake, multiplier)
        return == totalReturn(stake, multiplier, outcome)
        toBank == bankAllocation(outcome, return)
        toRoll == rollAllocation(outcome, return)
        roll == newRoll(prevRoll, stake, outcome, toRoll)
        bank == newBank(prevRoll, prevBank, stake, outcome, toBank)
    IN  IF failure # ""
        THEN Reject(failure)
        ELSE [ok |-> TRUE,
              newRoll |-> roll,
              newBank |-> bank,
              totalWealth |-> totalWealth(roll, bank),
              profitLoss |-> profitLoss(stake, outcome, return),
              amountBanked |-> toBank]

----------------------------------------------------------------------------
(* recomputeAll: src/src/App.tsx 343-376 *)

\* WithDerived that numbers a row one after the number it already has
WithDerivedRenumbered(t, number, res) ==
    [t EXCEPT !.trade_number = t.trade_number + 1,
              !.profit_loss = res.profitLoss,
              !.amount_banked = res.amountBanked,
              !.roll_pot_after = res.newRoll,
              !.bank_total_after = res.newBank,
              !.total_wealth_after = res.totalWealth]

\* { ...t, trade_number: i + 1, profit_loss: ..., ... } of lines 364-372
WithDerived(t, number, res) ==
    [t EXCEPT !.trade_number = number,
              !.profit_loss = res.profitLoss,
              !.amount_banked = res.amountBanked,
              !.roll_pot_after = res.newRoll,
              !.bank_total_after = res.newBank,
              !.total_wealth_after = res.totalWealth]

\* Advance that carries the Roll Pot on and leaves the Bank at its start
AdvanceRollOnly(res) == [roll |-> res.newRoll, bank |-> STARTING_BANK_TOTAL]

\* lines 361-362: the running balances after a record
Advance(res) == [roll |-> res.newRoll, bank |-> res.newBank]

\* Rejection that reports the 0-based index of the loop
RejectionZeroBased(i, reason) == [ok |-> FALSE, index |-> i - 1, reason |-> reason]

\* line 358: { ok: false, reason: `Trade #${i + 1}: ${res.reason}` }, the two
\* parts of the text kept apart; the code's i is the 0-based index of the
\* loop, here i is the position counted from 1
Rejection(i, reason) == [ok |-> FALSE, index |-> i, reason |-> reason]

\* the loop of lines 349-373, from position i (1-based) with the running
\* balances roll and bank and the records pushed so far
RECURSIVE recomputeLoop(_, _, _, _, _)
recomputeLoop(tradesAsc, i, roll, bank, updated) ==
    IF i > Len(tradesAsc)
    THEN [ok |-> TRUE, updated |-> updated]
    ELSE LET t == tradesAsc[i]
             res == applyTradeMath(roll, bank, t.stake, t.multiplier, t.outcome)
         IN  IF ~res.ok
             THEN Rejection(i, res.reason)
             ELSE recomputeLoop(tradesAsc, i + 1, Advance(res).roll, Advance(res).bank,
                                Append(updated, WithDerived(t, i, res)))

recomputeAll(tradesAsc) ==
    recomputeLoop(tradesAsc, 1, STARTING_ROLL_POT, STARTING_BANK_TOTAL, <<>>)

----------------------------------------------------------------------------
(* Bounds and input sets *)

\* rows inserted in one run (identifiers are never reused)
MaxAdds == 2
\* store calls that answer with an error in one run
MaxFailures == 1
\* handlers started while another is in flight in one run
MaxOverlaps == 1
\* length of a history given to recomputeAll
MaxHist == 3

Tasks == {1, 2}
Outcomes == {"win", "loss"}

\* what the user submits in the Add and Edit forms
Stakes == {Dollars(0), Dollars(100), Dollars(200)}
Multipliers == {Mult(1, 0), Mult(2, 0)}

----------------------------------------------------------------------------
(* The store: the `trades` table behind supabase.from('trades') *)

\* a row as handleAddTrade builds it (lines 429-443); the store adds the id
NewTrade(created, multiplier, stake, outcome, res, number) ==
    [id |-> NoTrade,
     created_at |-> created,
     multiplier |-> multiplier,
     stake |-> stake,
     outcome |-> outcome,
     profit_loss |-> res.profitLoss,
     amount_banked |-> res.amountBanked,
     roll_pot_after |-> res.newRoll,
     bank_total_after |-> res.newBank,
     total_wealth_after |-> res.totalWealth,
     trade_number |-> number]

\* every ordering of the rows of S
Orderings(S) ==
    LET n == Cardinality(S)
    IN  {s \in [1..n -> S] : \A i, j \in 1..n : i # j => s[i] # s[j]}

\* .order('trade_number', { ascending: true }): rows with equal trade_number
\* come in any order
AscOrders(S) ==
    {s \in Orderings(S) :
        \A i \in 1..(Len(s) - 1) : s[i].trade_number <= s[i + 1].trade_number}

\* .order('trade_number', { ascending: false })
DescOrders(S) ==
    {s \in Orderings(S) :
        \A i \in 1..(Len(s) - 1) : s[i].trade_number >= s[i + 1].trade_number}

\* .insert([newTrade]): the store assigns the id
Insert(S, newTrade, id) == S \cup {[newTrade EXCEPT !.id = id]}

\* DeleteById whose filter matches no row
DeleteByIdMatchesNone(S, id) == {r \in S : TRUE}

\* .delete().eq('id', id)
DeleteById(S, id) == {r \in S : r.id # id}

\* UpsertRow with a payload that carries a fresh created_at
UpsertRowStampsNow(S, p) == [p EXCEPT !.created_at = 0]

\* .upsert(payload, { onConflict: 'id' }) with the payload of persistTrades
\* (lines 379-393): every column but created_at is written; a payload row
\* whose id is not in the table is inserted with the column's default
UpsertRow(S, p) ==
    IF \E r \in S : r.id = p.id
    THEN [p EXCEPT !.created_at = (CHOOSE r \in S : r.id = p.id).created_at]
    ELSE [p EXCEPT !.created_at = 0]

Upsert(S, payload) ==
    LET ids == {payload[i].id : i \in 1..Len(payload)}
    IN  {r \in S : r.id \notin ids}
        \cup {UpsertRow(S, payload[i]) : i \in 1..Len(payload)}

----------------------------------------------------------------------------
(* Local state *)

StartingStats ==
    [rollPot |-> STARTING_ROLL_POT,
     bankTotal |-> STARTING_BANK_TOTAL,
     totalWealth |-> STARTING_ROLL_POT + STARTING_BANK_TOTAL,
     totalTrades |-> 0,
     wins |-> 0,
     losses |-> 0]

\* calculateStats that shows an empty ledger as all zeros
calculateStatsEmptyIsZero(tradesList) ==
    IF Len(tradesList) = 0
    THEN [StartingStats EXCEPT !.bankTotal = 0, !.totalWealth = 0]
    ELSE LET latest == tradesList[1]
         IN  [rollPot |-> latest.roll_pot_after,
              bankTotal |-> latest.bank_total_after,
              totalWealth |-> latest.total_wealth_after,
              totalTrades |-> Len(tradesList),
              wins |-> Cardinality({i \in 1..Len(tradesList) :
                                       tradesList[i].outcome = "win"}),
              losses |-> Cardinality({i \in 1..Len(tradesList) :
                                         tradesList[i].outcome = "loss"})]

\* calculateStats that reads the balances of the last row of the list
calculateStatsFromOldest(tradesList) ==
    IF Len(tradesList) = 0
    THEN StartingStats
    ELSE LET oldest == tradesList[Len(tradesList)]
         IN  [rollPot |-> oldest.roll_pot_after,
              bankTotal |-> oldest.bank_total_after,
              totalWealth |-> oldest.total_wealth_after,
              totalTrades |-> Len(tradesList),
              wins |-> Cardinality({i \in 1..Len(tradesList) :
                                       tradesList[i].outcome = "win"}),
              losses |-> Cardinality({i \in 1..Len(tradesList) :
                                         tradesList[i].outcome = "loss"})]

\* calculateStats (lines 300-328); tradesList is newest first
calculateStats(tradesList) ==
    IF Len(tradesList) = 0
    THEN StartingStats
    ELSE LET latest == tradesList[1]
         IN  [rollPot |-> latest.roll_pot_after,
              bankTotal |-> latest.bank_total_after,
              totalWealth |-> latest.total_wealth_after,
              totalTrades |-> Len(tradesList),
              wins |-> Cardinality({i \in 1..Len(tradesList) :
                                       tradesList[i].outcome = "win"}),
              losses |-> Cardinality({i \in 1..Len(tradesList) :
                                         tradesList[i].outcome = "loss"})]

NoInput == [stake |-> 0, multiplier |-> 0, outcome |-> "none"]

\* a handler invocation: the store call it awaits (pc), the handler (kind),
\* and the locals that live across the await
IdleOp == [pc |-> "idle", kind |-> "none", id |-> NoTrade, input |-> NoInput,
           payload |-> <<>>]

Idle(t) == op[t].pc = "idle"
\* a new invocation takes the first free task
CanStart(t) == Idle(t) /\ \A u \in Tasks : u < t => ~Idle(u)
\* no handler is awaiting a store call
Quiescent == \A t \in Tasks : Idle(t)


----------------------------------------------------------------------------
(* Handlers.  An action is the code a handler runs between two awaits: the  *)
(* answer of the store call it was awaiting (ok or an error) and everything *)
(* up to the next store call.  The user interface offers nothing while      *)
(* isLoading (lines 642-647), Undo and Recompute only when `trades` is not  *)
(* empty (lines 879, 1016-1026).  The Add form and the buttons beside it    *)
(* replace each other (showForm, lines 866-903), and either can be brought  *)
(* up at any time (lines 870, 1004), so showForm keeps no handler from      *)
(* starting and is left out of the state.                                   *)

FnUnchanged == UNCHANGED <<args, mathRes, hist, rec1, rec2>>
NoAnswer == UNCHANGED failures
\* a handler starts: it overlaps the handler in flight, if there is one
Started == overlaps' = IF Quiescent THEN overlaps ELSE overlaps + 1
NoStart == UNCHANGED overlaps
\* the store call answers ok, or with an error
Answered(ok) ==
    IF ok THEN failures' = failures
          ELSE failures < MaxFailures /\ failures' = failures + 1

\* what applyTradeMath gives for a trade that changes nothing
NoEffect(roll, bank) ==
    [ok |-> TRUE, newRoll |-> roll, newBank |-> bank,
     totalWealth |-> totalWealth(roll, bank), profitLoss |-> 0, amountBanked |-> 0]

\* AddStart that validates on the starting balances, not the displayed ones
AddStartOnStartingStats(t, stake, multiplier, outcome) ==
    /\ ~isLoading /\ CanStart(t)
    /\ nextId <= MaxAdds
    /\ LET res == applyTradeMath(STARTING_ROLL_POT, STARTING_BANK_TOTAL, stake,
                                 multiplier, outcome)
           tradeNumber == Len(trades) + 1
       IN  IF ~res.ok
           THEN /\ alert' = Alert(res.reason)
                /\ op' = op
           ELSE /\ alert' = NoAlert
                /\ op' = [op EXCEPT ![t] =
                            [pc |-> "insert", kind |-> "add", id |-> NoTrade,
                             input |-> NewTrade(nextId, multiplier, stake, outcome,
                                                res, tradeNumber),
                             payload |-> <<>>]]
    /\ UNCHANGED <<store, trades, stats, isLoading, editingTrade, nextId>>
    /\ NoAnswer
    /\ FnUnchanged
    /\ Started

\* AddStart without the return of line 423: a rejected trade is inserted too
AddStartUnchecked(t, stake, multiplier, outcome) ==
    /\ ~isLoading /\ CanStart(t)
    /\ nextId <= MaxAdds
    /\ LET res == applyTradeMath(stats.rollPot, stats.bankTotal, stake, multiplier,
                                 outcome)
           tradeNumber == Len(trades) + 1
       IN  /\ alert' = IF res.ok THEN NoAlert ELSE Alert(res.reason)
           /\ op' = [op EXCEPT ![t] =
                       [pc |-> "insert", kind |-> "add", id |-> NoTrade,
                        input |-> NewTrade(nextId, multiplier, stake, outcome,
                                           IF res.ok THEN res
                                           ELSE NoEffect(stats.rollPot,
                                                         stats.bankTotal),
                                           tradeNumber),
                        payload |-> <<>>]]
    /\ UNCHANGED <<store, trades, stats, isLoading, editingTrade, nextId>>
    /\ NoAnswer
    /\ FnUnchanged
    /\ Started

\* handleAddTrade up to the insert (lines 415-445)
AddStart(t, stake, multiplier, outcome) ==
    /\ ~isLoading /\ CanStart(t)
    /\ nextId <= MaxAdds
    /\ LET res == applyTradeMath(stats.rollPot, stats.bankTotal, stake, multiplier,
                                 outcome)
           tradeNumber == Len(trades) + 1
       IN  IF ~res.ok
           THEN /\ alert' = Alert(res.reason)
                /\ op' = op
           ELSE /\ alert' = NoAlert
                /\ op' = [op EXCEPT ![t] =
                            [pc |-> "insert", kind |-> "add", id |-> NoTrade,
                             input |-> NewTrade(nextId, multiplier, stake, outcome,
                                                res, tradeNumber),
                             payload |-> <<>>]]
    /\ UNCHANGED <<store, trades, stats, isLoading, editingTrade, nextId>>
    /\ NoAnswer
    /\ FnUnchanged
    /\ Started

\* handleAddTrade after the insert (lines 445-463), into recomputeAndReload
AddInsert(t, ok) ==
    /\ op[t].pc = "insert"
    /\ IF ~ok
       THEN /\ alert' = Alert("Failed to add trade")
            /\ op' = [op EXCEPT ![t] = IdleOp]
            /\ UNCHANGED <<store, nextId>>
       ELSE /\ store' = Insert(store, op[t].input, nextId)
            /\ nextId' = nextId + 1
            /\ op' = [op EXCEPT ![t] = [IdleOp EXCEPT !.pc = "fetch", !.kind = "add"]]
            /\ alert' = alert
    /\ UNCHANGED <<trades, stats, isLoading, editingTrade>>
    /\ Answered(ok)
    /\ FnUnchanged
    /\ NoStart

\* handleUndoLastTrade up to the delete (lines 466-472), the confirm accepted
UndoStart(t) ==
    /\ ~isLoading /\ CanStart(t)
    /\ Len(trades) # 0
    /\ op' = [op EXCEPT ![t] = [IdleOp EXCEPT !.pc = "delete", !.kind = "undo",
                                              !.id = trades[1].id]]
    /\ alert' = NoAlert
    /\ UNCHANGED <<store, trades, stats, isLoading, editingTrade, nextId>>
    /\ NoAnswer
    /\ FnUnchanged
    /\ Started

\* handleUndoLastTrade after the delete (lines 472-479)
UndoDelete(t, ok) ==
    /\ op[t].pc = "delete"
    /\ IF ~ok
       THEN /\ alert' = Alert("Failed to undo last trade")
            /\ op' = [op EXCEPT ![t] = IdleOp]
            /\ store' = store
       ELSE /\ store' = DeleteById(store, op[t].id)
            /\ op' = [op EXCEPT ![t] = [IdleOp EXCEPT !.pc = "fetch", !.kind = "undo"]]
            /\ alert' = alert
    /\ UNCHANGED <<trades, stats, isLoading, editingTrade, nextId>>
    /\ Answered(ok)
    /\ FnUnchanged
    /\ NoStart

\* the Recompute button (line 1020): recomputeAndReload up to its fetch
RecomputeStart(t) ==
    /\ ~isLoading /\ CanStart(t)
    /\ Len(trades) > 0
    /\ op' = [op EXCEPT ![t] = [IdleOp EXCEPT !.pc = "fetch", !.kind = "recompute"]]
    /\ alert' = NoAlert
    /\ UNCHANGED <<store, trades, stats, isLoading, editingTrade, nextId>>
    /\ NoAnswer
    /\ FnUnchanged
    /\ Started

\* openEdit (lines 482-491)
OpenEdit(i) ==
    /\ ~isLoading /\ editingTrade = NoTrade
    /\ i \in 1..Len(trades)
    /\ editingTrade' = trades[i].id
    /\ UNCHANGED <<store, trades, stats, isLoading, alert, op, nextId>>
    /\ NoAnswer
    /\ FnUnchanged
    /\ NoStart

\* setEditingTrade(null), lines 1250 and 1347
CloseEdit ==
    /\ ~isLoading /\ editingTrade # NoTrade
    /\ editingTrade' = NoTrade
    /\ UNCHANGED <<store, trades, stats, isLoading, alert, op, nextId>>
    /\ NoAnswer
    /\ FnUnchanged
    /\ NoStart

\* handleSaveEdit up to its fetch (lines 493-497)
SaveEditStart(t, stake, multiplier, outcome) ==
    /\ ~isLoading /\ CanStart(t)
    /\ editingTrade # NoTrade
    /\ op' = [op EXCEPT ![t] =
                [pc |-> "fetch", kind |-> "edit", id |-> editingTrade,
                 input |-> [stake |-> stake, multiplier |-> multiplier,
                            outcome |-> outcome],
                 payload |-> <<>>]]
    /\ alert' = NoAlert
    /\ UNCHANGED <<store, trades, stats, isLoading, editingTrade, nextId>>
    /\ NoAnswer
    /\ FnUnchanged
    /\ Started

\* updatedBase that leaves the stake of the edited record as fetched
updatedBaseKeepsStake(asc, id, input) ==
    [i \in 1..Len(asc) |->
        IF asc[i].id # id
        THEN asc[i]
        ELSE [asc[i] EXCEPT !.multiplier = input.multiplier,
                            !.outcome = input.outcome]]

\* asc.map(...) of handleSaveEdit (lines 498-508)
updatedBase(asc, id, input) ==
    [i \in 1..Len(asc) |->
        IF asc[i].id # id
        THEN asc[i]
        ELSE [asc[i] EXCEPT !.multiplier = input.multiplier,
                            !.stake = input.stake,
                            !.outcome = input.outcome]]

\* fetchTradesAsc (lines 330-341): the rows in ascending order, or [] on error
fetchTradesAsc(ok, asc) == IF ok THEN asc ELSE <<>>

\* Fetched that writes the edited rows before the replay has accepted them
FetchedPersistsFirst(t, ok, asc) ==
    /\ op[t].pc = "fetch"
    /\ LET fetched == fetchTradesAsc(ok, asc)
           base == IF op[t].kind = "edit"
                   THEN updatedBase(fetched, op[t].id, op[t].input)
                   ELSE fetched
           rec == recomputeAll(base)
       IN  IF ~rec.ok
           THEN /\ alert' = RejectionAlert(IF op[t].kind = "edit"
                                            THEN "Edit not allowed"
                                            ELSE "Cannot recompute", rec)
                /\ op' = [op EXCEPT ![t] = IdleOp]
                /\ store' = Upsert(store, base)
           ELSE /\ alert' = alert
                /\ op' = [op EXCEPT ![t].pc = "upsert", ![t].payload = rec.updated]
                /\ store' = store
    /\ UNCHANGED <<trades, stats, isLoading, editingTrade, nextId>>
    /\ Answered(ok)
    /\ FnUnchanged
    /\ NoStart

\* after the fetch: recomputeAndReload (lines 405-411) or handleSaveEdit
\* (lines 497-516), up to the upsert
Fetched(t, ok, asc) ==
    /\ op[t].pc = "fetch"
    /\ LET fetched == fetchTradesAsc(ok, asc)
           base == IF op[t].kind = "edit"
                   THEN updatedBase(fetched, op[t].id, op[t].input)
                   ELSE fetched
           rec == recomputeAll(base)
       IN  IF ~rec.ok
           THEN /\ alert' = RejectionAlert(IF op[t].kind = "edit"
                                            THEN "Edit not allowed"
                                            ELSE "Cannot recompute", rec)
                /\ op' = [op EXCEPT ![t] = IdleOp]
           ELSE /\ alert' = alert
                /\ op' = [op EXCEPT ![t].pc = "upsert", ![t].payload = rec.updated]
    /\ UNCHANGED <<store, trades, stats, isLoading, editingTrade, nextId>>
    /\ Answered(ok)
    /\ FnUnchanged
    /\ NoStart

\* Persisted that goes on to loadTrades whatever the upsert answered
PersistedReloadsAnyway(t, ok) ==
    /\ op[t].pc = "upsert"
    /\ store' = IF ok THEN Upsert(store, op[t].payload) ELSE store
    /\ alert' = IF ok THEN alert
                ELSE Alert("Failed to recompute and save trades. Check console.")
    /\ editingTrade' = IF op[t].kind = "edit" THEN NoTrade ELSE editingTrade
    /\ isLoading' = TRUE
    /\ op' = [op EXCEPT ![t] = [IdleOp EXCEPT !.pc = "select", !.kind = op[t].kind]]
    /\ UNCHANGED <<trades, stats, nextId>>
    /\ Answered(ok)
    /\ FnUnchanged
    /\ NoStart

\* persistTrades after the upsert (lines 395-401) and its caller up to the
\* select of loadTrades (lines 411-412, 516-520, 282-286)
Persisted(t, ok) ==
    /\ op[t].pc = "upsert"
    /\ IF ~ok
       THEN /\ alert' = Alert("Failed to recompute and save trades. Check console.")
            /\ op' = [op EXCEPT ![t] = IdleOp]
            /\ UNCHANGED <<store, isLoading, editingTrade>>
       ELSE /\ store' = Upsert(store, op[t].payload)
            /\ editingTrade' = IF op[t].kind = "edit" THEN NoTrade ELSE editingTrade
            /\ isLoading' = TRUE
            /\ op' = [op EXCEPT ![t] = [IdleOp EXCEPT !.pc = "select",
                                                      !.kind = op[t].kind]]
            /\ alert' = alert
    /\ UNCHANGED <<trades, stats, nextId>>
    /\ Answered(ok)
    /\ FnUnchanged
    /\ NoStart

\* handleReset up to the delete (lines 523-529), the confirm accepted
ResetStart(t) ==
    /\ ~isLoading /\ CanStart(t)
    /\ op' = [op EXCEPT ![t] = [IdleOp EXCEPT !.pc = "deleteAll", !.kind = "reset"]]
    /\ alert' = NoAlert
    /\ UNCHANGED <<store, trades, stats, isLoading, editingTrade, nextId>>
    /\ NoAnswer
    /\ FnUnchanged
    /\ Started

\* handleReset after the delete (lines 531-537), into loadTrades
ResetDelete(t, ok) ==
    /\ op[t].pc = "deleteAll"
    /\ IF ~ok
       THEN /\ alert' = Alert("Failed to reset data")
            /\ op' = [op EXCEPT ![t] = IdleOp]
            /\ UNCHANGED <<store, isLoading>>
       ELSE /\ store' = {}
            /\ isLoading' = TRUE
            /\ op' = [op EXCEPT ![t] = [IdleOp EXCEPT !.pc = "select",
                                                      !.kind = "reset"]]
            /\ alert' = alert
    /\ UNCHANGED <<trades, stats, editingTrade, nextId>>
    /\ Answered(ok)
    /\ FnUnchanged
    /\ NoStart

\* loadTrades after its select (lines 288-294)
Loaded(t, ok, desc) ==
    /\ op[t].pc = "select"
    /\ IF ~ok
       THEN UNCHANGED <<trades, stats>>
       ELSE /\ trades' = desc
            /\ stats' = calculateStats(desc)
    /\ isLoading' = FALSE
    /\ op' = [op EXCEPT ![t] = IdleOp]
    /\ UNCHANGED <<store, editingTrade, alert, nextId>>
    /\ Answered(ok)
    /\ FnUnchanged
    /\ NoStart

----------------------------------------------------------------------------
(* The ledger: one user, who starts an operation when none is in flight *)

LedgerInit ==
    /\ store = {}
    /\ trades = <<>>
    /\ stats = StartingStats
    /\ isLoading = TRUE
    /\ editingTrade = NoTrade
    /\ alert = NoAlert
    /\ op = [t \in Tasks |-> IF t = 1 THEN [IdleOp EXCEPT !.pc = "select",
                                                          !.kind = "load"]
                                      ELSE IdleOp]
    /\ nextId = 1
    /\ failures = 0
    /\ overlaps = 0

Init ==
    /\ LedgerInit
    /\ args = NoArgs
    /\ mathRes = None
    /\ hist = <<>>
    /\ rec1 = None
    /\ rec2 = None

\* a store call of task t answers, ok being drawn from answers
AnswerFrom(t, answers) ==
    ~Idle(t) /\ \E ok \in answers :
        \/ AddInsert(t, ok)
        \/ UndoDelete(t, ok)
        \/ ResetDelete(t, ok)
        \/ Persisted(t, ok)
        \/ op[t].pc = "fetch" /\ \E asc \in AscOrders(store) : Fetched(t, ok, asc)
        \/ op[t].pc = "select" /\ \E desc \in DescOrders(store) : Loaded(t, ok, desc)

\* a store call of task t answers, with success or with an error
Answer(t) == AnswerFrom(t, BOOLEAN)

\* the user starts a handler on task t
Start(t) ==
    \/ \E stake \in Stakes, multiplier \in Multipliers, outcome \in Outcomes :
           AddStart(t, stake, multiplier, outcome)
    \/ \E stake \in Stakes, multiplier \in Multipliers, outcome \in Outcomes :
           SaveEditStart(t, stake, multiplier, outcome)
    \/ UndoStart(t)
    \/ ResetStart(t)
    \/ RecomputeStart(t)

View ==
    \/ \E i \in 1..MaxAdds : OpenEdit(i)
    \/ CloseEdit

Next ==
    \/ \E t \in Tasks : Answer(t)
    \/ Quiescent /\ \E t \in Tasks : Start(t)
    \/ Quiescent /\ View

Spec == Init /\ [][Next]_vars

----------------------------------------------------------------------------
(* The ledger with a user who does not wait: the buttons and forms of the   *)
(* page stay enabled while a handler awaits a store call (the only guard is *)
(* the loading screen of lines 642-647, up while loadTrades runs), so a     *)
(* second handler can be started while the first is in flight.  The store   *)
(* calls all succeed here: the errors of the store are those of Spec.       *)

AnswerOk(t) == AnswerFrom(t, {TRUE})

ConcNext ==
    \/ \E t \in Tasks : AnswerOk(t)
    \/ (Quiescent \/ overlaps < MaxOverlaps) /\ \E t \in Tasks : Start(t)
    \/ View

ConcSpec == Init /\ [][ConcNext]_vars


----------------------------------------------------------------------------
(* The two pure functions on their own: a call of applyTradeMath on         *)
(* arguments drawn from MathArgs, and recomputeAll on a history drawn from  *)
(* Histories, then again on its own output.                                 *)

ArgRolls == {Dollars(0 - 10), Dollars(0), Dollars(48), Dollars(70), Dollars(98),
             Dollars(140)}
ArgBanks == {Dollars(0), Dollars(2930), Dollars(2972), Dollars(3000)}
ArgStakes == {Dollars(0 - 10), Dollars(0), Dollars(50), Dollars(70), Dollars(100),
              Dollars(5000)}
ArgMultipliers == {Mult(0, 50), Mult(1, 0), Mult(1, 1), Mult(1, 50), Mult(2, 0),
                   Mult(3, 0)}

MathArgs ==
    [prevRoll : ArgRolls, prevBank : ArgBanks, stake : ArgStakes,
     multiplier : ArgMultipliers, outcome : Outcomes]

HistStakes == {Dollars(0), Dollars(100), Dollars(140), Dollars(200)}
HistMultipliers == {Mult(1, 0), Mult(2, 0)}
\* what the derived fields and the trade_number of a row hold before the call
StaleValues == {0, 7}

HistRow(i, stake, multiplier, outcome, stale) ==
    [id |-> i,
     created_at |-> i,
     multiplier |-> multiplier,
     stake |-> stake,
     outcome |-> outcome,
     profit_loss |-> stale,
     amount_banked |-> stale,
     roll_pot_after |-> stale,
     bank_total_after |-> stale,
     total_wealth_after |-> stale,
     trade_number |-> stale]

\* the inputs of a row: any stake and outcome at multiplier 2, and one row
\* whose multiplier is not above 1
HistInputs ==
    {in \in [stake : HistStakes, multiplier : HistMultipliers, outcome : Outcomes] :
        in.multiplier > Mult(1, 0) \/ (in.stake = Dollars(100) /\ in.outcome = "win")}

Histories ==
    UNION {{[i \in 1..n |-> HistRow(i, in[i].stake, in[i].multiplier, in[i].outcome,
                                    stale)] :
              in \in [1..n -> HistInputs], stale \in StaleValues} : n \in 0..MaxHist}

FnInit ==
    /\ LedgerInit
    /\ \/ args \in MathArgs /\ hist = <<>>
       \/ args = NoArgs /\ hist \in Histories
    /\ mathRes = None
    /\ rec1 = None
    /\ rec2 = None

CallApplyTradeMath ==
    /\ args # NoArgs /\ mathRes = None
    /\ mathRes' = applyTradeMath(args.prevRoll, args.prevBank, args.stake,
                                 args.multiplier, args.outcome)
    /\ UNCHANGED <<args, hist, rec1, rec2>>
    /\ UNCHANGED ledgerVars

CallRecomputeAll ==
    /\ args = NoArgs /\ rec1 = None
    /\ rec1' = recomputeAll(hist)
    /\ UNCHANGED <<args, mathRes, hist, rec2>>
    /\ UNCHANGED ledgerVars

CallRecomputeAllAgain ==
    /\ rec1 # None /\ rec1.ok /\ rec2 = None
    /\ rec2' = recomputeAll(rec1.updated)
    /\ UNCHANGED <<args, mathRes, hist, rec1>>
    /\ UNCHANGED ledgerVars

FnNext == CallApplyTradeMath \/ CallRecomputeAll \/ CallRecomputeAllAgain

FnSpec == FnInit /\ [][FnNext]_vars


----------------------------------------------------------------------------
(* Properties of the stored ledger *)

Derived(r) ==
    <<r.profit_loss, r.amount_banked, r.roll_pot_after, r.bank_total_after,
      r.total_wealth_after>>

\* the derived fields of the rows asc are the ones a replay of their inputs
\* from the starting state gives
ReplayAgrees(asc) ==
    LET rec == recomputeAll(asc)
    IN  /\ rec.ok
        /\ \A i \in 1..Len(asc) : Derived(rec.updated[i]) = Derived(asc[i])

\* C1: whenever no operation is in flight, the derived fields of every
\* stored record are the ones that replaying the stored stake, multiplier
\* and outcome in trade_number order from (Roll Pot 0, Bank 3000) gives,
\* whatever store calls have failed.
C1_StoreReplaysToItself ==
    Quiescent => \E asc \in AscOrders(store) : ReplayAgrees(asc)

\* C5: whenever no operation is in flight, the trade_numbers of the N stored
\* records are exactly 1..N, each once, whatever store calls have failed.
C5_SequenceNumbersDense ==
    Quiescent =>
        /\ {r.trade_number : r \in store} = 1..Cardinality(store)
        /\ \A r, q \in store : r.trade_number = q.trade_number => r = q


----------------------------------------------------------------------------
(* Properties of applyTradeMath and recomputeAll *)

Called == mathRes # None
Replayed == rec1 # None /\ rec1.ok

\* C2: total_wealth_after is roll_pot_after + bank_total_after in every
\* record a successful recomputeAll returns, and totalWealth is
\* newRoll + newBank in every successful result of applyTradeMath.
C2_TotalWealthIsSum ==
    /\ (Called /\ mathRes.ok) =>
          mathRes.totalWealth = mathRes.newRoll + mathRes.newBank
    /\ Replayed =>
          \A i \in 1..Len(rec1.updated) :
              rec1.updated[i].total_wealth_after =
                  rec1.updated[i].roll_pot_after + rec1.updated[i].bank_total_after

C2_Witness ==
    /\ Replayed
    /\ Len(rec1.updated) >= 2
    /\ rec1.updated[2].roll_pot_after > 0

PrevRoll(updated, i) ==
    IF i = 1 THEN STARTING_ROLL_POT ELSE updated[i - 1].roll_pot_after
PrevBank(updated, i) ==
    IF i = 1 THEN STARTING_BANK_TOTAL ELSE updated[i - 1].bank_total_after

\* C3: in the output of a successful recomputeAll, the balances, profit_loss
\* and amount_banked of record i are those of applyTradeMath on the balances
\* of record i-1 (the starting state for i = 1) and on the stake, multiplier
\* and outcome of record i of the input.
C3_EachRecordFollowsItsPredecessor ==
    Replayed =>
        /\ Len(rec1.updated) = Len(hist)
        /\ \A i \in 1..Len(hist) :
              LET res == applyTradeMath(PrevRoll(rec1.updated, i),
                                        PrevBank(rec1.updated, i),
                                        hist[i].stake, hist[i].multiplier,
                                        hist[i].outcome)
                  u == rec1.updated[i]
              IN  /\ res.ok
                  /\ u.roll_pot_after = res.newRoll
                  /\ u.bank_total_after = res.newBank
                  /\ u.profit_loss = res.profitLoss
                  /\ u.amount_banked = res.amountBanked

C3_Witness ==
    /\ Replayed
    /\ Len(hist) >= 2
    /\ rec1.updated[1].bank_total_after # STARTING_BANK_TOTAL
    /\ rec1.updated[2].bank_total_after # rec1.updated[1].bank_total_after

\* C4: when recomputeAll succeeds with output u, recomputeAll of u succeeds
\* and returns records with the trade_numbers and derived fields of u.
C4_RecomputeIdempotent ==
    (Replayed /\ rec2 # None) =>
        /\ rec2.ok
        /\ Len(rec2.updated) = Len(rec1.updated)
        /\ \A i \in 1..Len(rec1.updated) :
              /\ rec2.updated[i].trade_number = rec1.updated[i].trade_number
              /\ Derived(rec2.updated[i]) = Derived(rec1.updated[i])

C4_Witness ==
    /\ Replayed /\ rec2 # None
    /\ Len(rec1.updated) >= 2
    /\ hist[1].trade_number # rec1.updated[1].trade_number

SeedingExample ==
    [prevRoll |-> Dollars(0), prevBank |-> Dollars(3000), stake |-> Dollars(100),
     multiplier |-> Mult(2, 0), outcome |-> "win"]

RollingExample ==
    [prevRoll |-> Dollars(70), prevBank |-> Dollars(2930), stake |-> Dollars(70),
     multiplier |-> Mult(3, 0), outcome |-> "win"]

Product == args.stake * args.multiplier
Tenths(x) == 10 * MultScale * x

LossExample ==
    [prevRoll |-> Dollars(98), prevBank |-> Dollars(2972), stake |-> Dollars(50),
     multiplier |-> Mult(2, 0), outcome |-> "loss"]

\* C9: an accepted losing trade has profitLoss = -stake and amountBanked = 0;
\* when prevRoll > 0 it takes the stake from the Roll Pot and leaves the Bank,
\* when prevRoll <= 0 it takes the stake from the Bank and leaves the Roll
\* Pot.  Roll Pot 98, Bank 2972, stake 50 gives Roll Pot 48, Bank 2972.
C9_LossDebitsCapitalSource ==
    /\ (Called /\ mathRes.ok /\ args.outcome = "loss") =>
          /\ mathRes.profitLoss = 0 - args.stake
          /\ mathRes.amountBanked = 0
          /\ IF args.prevRoll > 0
             THEN /\ mathRes.newRoll = args.prevRoll - args.stake
                  /\ mathRes.newBank = args.prevBank
             ELSE /\ mathRes.newBank = args.prevBank - args.stake
                  /\ mathRes.newRoll = args.prevRoll
    /\ (Called /\ args = LossExample) =>
          /\ mathRes.ok
          /\ mathRes.newRoll = Dollars(48)
          /\ mathRes.newBank = Dollars(2972)

C9_Witness == Called /\ args = LossExample /\ mathRes.ok

\* C10: a call with stake <= 0 is rejected for the stake, whatever the
\* multiplier and the balances; a call with stake > 0 and multiplier <= 1 is
\* rejected for the multiplier, whatever the balances.
C10_FirstFailingCheckWins ==
    Called =>
        /\ args.stake <= 0 => mathRes = Reject("Stake must be > 0")
        /\ (args.stake > 0 /\ args.multiplier <= Mult(1, 0)) =>
              mathRes = Reject("Multiplier must be > 1")

C10_Witness ==
    /\ Called
    /\ args.stake <= 0
    /\ args.multiplier <= Mult(1, 0)
    /\ mathRes = Reject("Stake must be > 0")

\* C11: a call with stake > 0 and multiplier > 1 is rejected exactly when the
\* stake exceeds the balance of its capital source, the Bank when
\* prevRoll <= 0 and the Roll Pot otherwise, and the rejection names that
\* source; with prevRoll > 0 a stake above the Roll Pot is rejected for the
\* Roll Pot whatever the Bank holds.
C11_CapitalSourceLimitsStake ==
    (Called /\ args.stake > 0 /\ args.multiplier > Mult(1, 0)) =>
        IF args.prevRoll <= 0
        THEN IF args.stake > args.prevBank
             THEN mathRes = Reject("Stake cannot exceed Bank balance")
             ELSE mathRes.ok
        ELSE IF args.stake > args.prevRoll
             THEN mathRes = Reject("Stake cannot exceed Roll Pot balance")
             ELSE mathRes.ok

\* Roll Pot 48, stake 100, Bank 3000
C11_Witness ==
    /\ Called
    /\ args.prevRoll = Dollars(48) /\ args.stake = Dollars(100)
    /\ args.prevBank = Dollars(3000) /\ args.multiplier = Mult(2, 0)
    /\ mathRes = Reject("Stake cannot exceed Roll Pot balance")

Rejected == rec1 # None /\ ~rec1.ok

\* C12: a rejection of recomputeAll carries no updated records; its index is
\* the position, counted from 1, of the first record of the input that
\* applyTradeMath rejects on the balances the records before it lead to, and
\* its reason is the reason of that rejection.
C12_RejectionIsFirstAndWhole ==
    Rejected =>
        /\ DOMAIN rec1 = {"ok", "index", "reason"}
        /\ rec1.index \in 1..Len(hist)
        /\ LET k == rec1.index
               before == recomputeAll(SubSeq(hist, 1, k - 1))
           IN  /\ before.ok
               /\ LET res == applyTradeMath(PrevRoll(before.updated, k),
                                            PrevBank(before.updated, k),
                                            hist[k].stake, hist[k].multiplier,
                                            hist[k].outcome)
                  IN  ~res.ok /\ rec1.reason = res.reason

C12_Witness ==
    /\ Rejected
    /\ rec1.index = 2
    /\ Len(hist) = 3
    /\ rec1.reason = "Stake cannot exceed Roll Pot balance"

----------------------------------------------------------------------------
(* Properties of the handlers *)

Inputs(r) == <<r.stake, r.multiplier, r.outcome>>

\* task t is in handleSaveEdit, awaiting its fetch
EditFetching(t) == op[t].kind = "edit" /\ op[t].pc = "fetch"
\* task t is in handleSaveEdit, awaiting the upsert of persistTrades
EditPersisting(t) == op[t].kind = "edit" /\ op[t].pc = "upsert"

\* C13: neither step of an Edit that recomputeAll rejects writes to the
\* store: the store after the Edit is the store before it.
C13_RejectedEditWritesNothing ==
    [][\A t \in Tasks :
          (EditFetching(t)' \/ (EditFetching(t) /\ Idle(t)')) => store' = store]_vars

\* an Edit of record #1 has been rejected for record #2
C13_Witness ==
    /\ Quiescent /\ failures = 0
    /\ alert.text = "Edit not allowed"
    /\ alert.index = 2
    /\ Cardinality(store) = 2

\* the trade_numbers of the rows of S are 1..N, each once
Dense(S) == {r.trade_number : r \in S} = 1..Cardinality(S)

\* the balance a trade after res draws its stake from
SourceAfter(res) == IF res.newRoll <= 0 THEN res.newBank ELSE res.newRoll
SourceNameAfter(res) ==
    IF res.newRoll <= 0 THEN "Stake cannot exceed Bank balance"
                        ELSE "Stake cannot exceed Roll Pot balance"

\* the rows p continue one another: p[1] holds what applyTradeMath gives for
\* the inputs in from the starting state, and every later row holds the
\* inputs of the same row of asc and what applyTradeMath gives for them on
\* the balances of the row before it
Cascade(p, asc, in) ==
    /\ Len(p) = Len(asc)
    /\ \A i \in 1..Len(p) :
          LET inputs == IF i = 1 THEN <<in.stake, in.multiplier, in.outcome>>
                                 ELSE Inputs(asc[i])
              res == applyTradeMath(PrevRoll(p, i), PrevBank(p, i),
                                    inputs[1], inputs[2], inputs[3])
          IN  /\ p[i].id = asc[i].id
              /\ Inputs(p[i]) = inputs
              /\ res.ok
              /\ Derived(p[i]) = <<res.profitLoss, res.amountBanked, res.newRoll,
                                   res.newBank, res.totalWealth>>

\* C14: when an Edit of record #1 of a stored history of N >= 2 records has
\* fetched it, either the Edit is rejected and the store is as it was, or
\* the rows it is about to persist are record #1 with the submitted inputs
\* and records #2..#N re-derived from the balances after it; it is rejected
\* for record #2 when the stake of record #2 exceeds the capital source left
\* by the edited record #1.  The upsert then puts exactly those rows'
\* inputs, derived fields and trade_numbers in the store.
C14_EditCascades ==
    [][\A t \in Tasks :
          /\ (/\ EditFetching(t)
              /\ failures' = failures
              /\ Dense(store) /\ Cardinality(store) >= 2
              /\ \E r \in store : r.id = op[t].id /\ r.trade_number = 1)
             => LET asc == CHOOSE s \in AscOrders(store) : TRUE
                    in == op[t].input
                    first == applyTradeMath(STARTING_ROLL_POT, STARTING_BANK_TOTAL,
                                            in.stake, in.multiplier, in.outcome)
                IN  /\ \/ Idle(t)' /\ store' = store /\ alert'.text = "Edit not allowed"
                       \/ EditPersisting(t)' /\ Cascade(op'[t].payload, asc, in)
                    /\ (first.ok /\ asc[2].stake > SourceAfter(first))
                       => /\ Idle(t)'
                          /\ alert' = RejectionAlert("Edit not allowed",
                                          Rejection(2, SourceNameAfter(first)))
          /\ (EditPersisting(t) /\ op'[t].pc = "select")
             => \A i \in 1..Len(op[t].payload) :
                   \E r \in store' :
                       /\ r.id = op[t].payload[i].id
                       /\ Inputs(r) = Inputs(op[t].payload[i])
                       /\ Derived(r) = Derived(op[t].payload[i])
                       /\ r.trade_number = i]_vars

\* an Edit of record #1 is about to persist a record #2 whose derived fields
\* are not the stored ones
C14_Witness ==
    \E t \in Tasks :
        /\ EditPersisting(t) /\ failures = 0
        /\ Len(op[t].payload) = 2
        /\ op[t].payload[1].id = op[t].id
        /\ \E r \in store :
              /\ r.id = op[t].payload[2].id
              /\ r.trade_number = 2
              /\ Derived(r) # Derived(op[t].payload[2])

\* C15: the upsert of a successful Edit of record r leaves the set of ids of
\* the store as it was, and leaves every row its created_at and every row
\* but r its stake, multiplier and outcome.
C15_EditKeepsIdentityAndOtherInputs ==
    [][\A t \in Tasks :
          (EditPersisting(t) /\ op'[t].pc = "select")
          => /\ {r.id : r \in store'} = {r.id : r \in store}
             /\ \A r \in store, q \in store' :
                   q.id = r.id
                   => /\ q.created_at = r.created_at
                      /\ r.id # op[t].id => Inputs(q) = Inputs(r)]_vars

\* an Edit of record #1 of two has been persisted with a stake that is not
\* the one the local view still shows
C15_Witness ==
    \E t \in Tasks :
        /\ op[t].kind = "edit" /\ op[t].pc = "select"
        /\ failures = 0
        /\ Cardinality(store) = 2 /\ Len(trades) = 2
        /\ \E r \in store :
              /\ r.trade_number = 1
              /\ r.id = trades[2].id
              /\ r.stake # trades[2].stake

MathReasons ==
    {"Stake must be > 0", "Multiplier must be > 1",
     "Stake cannot exceed Bank balance", "Stake cannot exceed Roll Pot balance"}

\* C16: handleAddTrade issues its insert only for a trade that applyTradeMath
\* accepts on the displayed balances, and the step in which it alerts the
\* reason of a rejection changes neither the store nor the local view and
\* starts no store call.
C16_RejectedAddWritesNothing ==
    [][/\ \A t \in Tasks :
             (Idle(t) /\ op'[t].pc = "insert")
             => applyTradeMath(stats.rollPot, stats.bankTotal, op'[t].input.stake,
                               op'[t].input.multiplier, op'[t].input.outcome).ok
       /\ (Quiescent /\ alert' \in {Alert(reason) : reason \in MathReasons})
          => UNCHANGED <<store, trades, stats, op, nextId>>]_vars

\* an Add of a stake above the Roll Pot has been rejected
C16_Witness ==
    /\ Quiescent /\ failures = 0
    /\ alert = Alert("Stake cannot exceed Roll Pot balance")
    /\ Cardinality(store) = 1
    /\ Len(trades) = 1

\* the derived fields of a row that has been given none
NoDerived == <<0, 0, 0, 0, 0>>

\* C17: a row comes into the store with derived fields only by the upsert of
\* persistTrades, which writes the output of recomputeAll: a row that any
\* other store call puts there carries no derived field values.
C17_DerivedOnlyFromRecompute ==
    [][\A r \in store' \ store :
          (\E t \in Tasks : op[t].pc = "upsert") \/ Derived(r) = NoDerived]_vars

\* C18: the row that the delete of handleUndoLastTrade is about to remove
\* has the highest trade_number of the store.
C18_UndoDeletesLast ==
    \A t \in Tasks :
        op[t].pc = "delete"
        => \A r \in store :
              r.id = op[t].id => \A q \in store : q.trade_number <= r.trade_number

\* task t is in the loadTrades that handleReset calls after its delete
ResetLoading(t) == op[t].kind = "reset" /\ op[t].pc = "select"

MutationCalls == {"fetch", "insert", "upsert", "delete", "deleteAll"}

\* C20: when a store call of a mutation answers with an error, the handler
\* alerts a failure and returns, and the local view is as it was.
C20_StorageFailureEndsTheOperation ==
    [][\A t \in Tasks :
          (op[t].pc \in MutationCalls /\ failures' > failures /\ op'[t] # op[t])
          => /\ Idle(t)'
             /\ alert' # alert /\ alert' # NoAlert
             /\ UNCHANGED <<trades, stats>>]_vars

----------------------------------------------------------------------------
(* Properties of valid histories: the records a successful recomputeAll    *)
(* returns                                                                 *)

\* C21: in the output of a successful recomputeAll, the Bank after record i
\* is at least the Bank after record i-1 for every record i that starts
\* from a Roll Pot > 0; a successful applyTradeMath with prevRoll > 0
\* returns newBank >= prevBank.
C21_BankNeverFallsOnRollingTrade ==
    /\ (Called /\ mathRes.ok /\ args.prevRoll > 0) => mathRes.newBank >= args.prevBank
    /\ Replayed =>
          \A i \in 1..Len(rec1.updated) :
              PrevRoll(rec1.updated, i) > 0
              => rec1.updated[i].bank_total_after >= PrevBank(rec1.updated, i)

\* a history whose second record wins from the Roll Pot and whose third
\* loses from it
C21_Witness ==
    /\ Replayed
    /\ Len(rec1.updated) = 3
    /\ PrevRoll(rec1.updated, 2) > 0 /\ PrevRoll(rec1.updated, 3) > 0
    /\ rec1.updated[2].bank_total_after > rec1.updated[1].bank_total_after
    /\ hist[3].outcome = "loss"

\* C22 as claimed: in the output of a successful recomputeAll, once the Roll
\* Pot has been > 0 after some record, every later losing record leaves the
\* Bank as it was and takes its stake out of the Roll Pot.
C22_BankIsRatchetAsClaimed ==
    Replayed =>
        \A j, i \in 1..Len(rec1.updated) :
            (j < i /\ rec1.updated[j].roll_pot_after > 0 /\ hist[i].outcome = "loss")
            => /\ rec1.updated[i].bank_total_after = PrevBank(rec1.updated, i)
               /\ rec1.updated[i].roll_pot_after =
                      PrevRoll(rec1.updated, i) - hist[i].stake

\* C22: in the output of a successful recomputeAll, every losing record that
\* starts from a Roll Pot > 0 leaves the Bank as it was and takes its stake
\* out of the Roll Pot; a losing record that starts from a Roll Pot that has
\* gone back to 0 takes its stake out of the Bank.
C22_BankIsRatchet ==
    Replayed =>
        \A i \in 1..Len(rec1.updated) :
            hist[i].outcome = "loss"
            => IF PrevRoll(rec1.updated, i) > 0
               THEN /\ rec1.updated[i].bank_total_after = PrevBank(rec1.updated, i)
                    /\ rec1.updated[i].roll_pot_after =
                           PrevRoll(rec1.updated, i) - hist[i].stake
               ELSE /\ rec1.updated[i].bank_total_after =
                           PrevBank(rec1.updated, i) - hist[i].stake
                    /\ rec1.updated[i].roll_pot_after = PrevRoll(rec1.updated, i)

\* the Roll Pot is seeded by record 1, lost whole by record 2, and record 3
\* loses a stake taken from the Bank
C22_Witness ==
    /\ Replayed
    /\ Len(rec1.updated) = 3
    /\ rec1.updated[1].roll_pot_after > 0
    /\ rec1.updated[2].roll_pot_after = 0
    /\ hist[3].outcome = "loss"
    /\ rec1.updated[3].bank_total_after < rec1.updated[2].bank_total_after

\* C27: in the output of a successful recomputeAll, roll_pot_after and
\* bank_total_after of every record are >= 0.
C27_BalancesNonNegative ==
    Replayed =>
        \A i \in 1..Len(rec1.updated) :
            /\ rec1.updated[i].roll_pot_after >= 0
            /\ rec1.updated[i].bank_total_after >= 0

\* a history that ends with the Roll Pot lost whole
C27_Witness ==
    /\ Replayed
    /\ Len(rec1.updated) >= 2
    /\ rec1.updated[1].roll_pot_after > 0
    /\ rec1.updated[Len(rec1.updated)].roll_pot_after = 0

RECURSIVE SumProfitLoss(_, _)
SumProfitLoss(updated, n) ==
    IF n = 0 THEN 0 ELSE SumProfitLoss(updated, n - 1) + updated[n].profit_loss

\* C28: a successful applyTradeMath returns totalWealth = prevRoll + prevBank
\* + profitLoss; in the output of a successful recomputeAll,
\* total_wealth_after of record i is total_wealth_after of record i-1 (3000
\* for i = 1) plus profit_loss of record i, and total_wealth_after of the
\* last record is 3000 plus the sum of all profit_loss.
C28_WealthConserved ==
    /\ (Called /\ mathRes.ok)
       => mathRes.totalWealth = args.prevRoll + args.prevBank + mathRes.profitLoss
    /\ Replayed =>
          LET u == rec1.updated
              n == Len(u)
          IN  /\ \A i \in 1..n :
                    u[i].total_wealth_after =
                        (IF i = 1 THEN Dollars(3000) ELSE u[i - 1].total_wealth_after)
                        + u[i].profit_loss
              /\ n > 0 => u[n].total_wealth_after = Dollars(3000) + SumProfitLoss(u, n)

\* a history of a seeding win, a rolling win and a loss
C28_Witness ==
    /\ Replayed
    /\ Len(rec1.updated) = 3
    /\ hist[1].outcome = "win" /\ hist[2].outcome = "win" /\ hist[3].outcome = "loss"
    /\ rec1.updated[3].total_wealth_after # Dollars(3000)

----------------------------------------------------------------------------
(* Properties of the scheduling of the handlers *)

\* C23: at most one handler is awaiting a store call: no handler starts
\* while another is in flight.
C23_AtMostOneInFlight ==
    \A t, u \in Tasks : (~Idle(t) /\ ~Idle(u)) => t = u

\* the handlers that replay the history: all but handleReset, whose only
\* store calls are its delete and the select of loadTrades
Replaying(t) == op[t].kind \in {"add", "edit", "undo", "recompute"}

Newest(S) == {r \in S : r.id = nextId - 1}

\* C25: the insert of an Add on a store of N rows adds one row, with
\* trade_number N + 1, above every trade_number of the store; the upsert of
\* the recomputeAndReload that follows leaves every field of the N rows
\* that were there before and the trade_number of the new row as they were.
C25_AddAppendsOne ==
    [][\A t \in Tasks :
          /\ (op[t].pc = "insert" /\ store' # store)
             => \E r \in store' :
                   /\ r \notin store
                   /\ store' = store \cup {r}
                   /\ r.trade_number = Cardinality(store) + 1
                   /\ \A q \in store : q.trade_number < r.trade_number
          /\ (op[t].kind = "add" /\ op[t].pc = "upsert" /\ op'[t].pc = "select")
             => /\ \A q \in store \ Newest(store) : q \in store'
                /\ \A r \in Newest(store) :
                      \E q \in store' : q.id = r.id /\ q.trade_number = r.trade_number]_vars

\* the rows asc are numbered 1..N in order and each holds what applyTradeMath
\* gives for its inputs on the balances of the row before it
Chained(asc) ==
    \A i \in 1..Len(asc) :
        LET res == applyTradeMath(PrevRoll(asc, i), PrevBank(asc, i), asc[i].stake,
                                  asc[i].multiplier, asc[i].outcome)
        IN  /\ asc[i].trade_number = i
            /\ res.ok
            /\ Derived(asc[i]) = <<res.profitLoss, res.amountBanked, res.newRoll,
                                   res.newBank, res.totalWealth>>

\* the store is consistent: its rows, in trade_number order, are Chained
ConsistentStore(S) == Dense(S) /\ \A asc \in AscOrders(S) : Chained(asc)

\* C26: when the delete of an Undo removes the row with the highest
\* trade_number of a consistent store, the store it leaves is consistent;
\* the recomputeAll of the recomputeAndReload that follows does not reject
\* and returns the rows as they are stored, and the upsert leaves the store
\* as it was.
C26_UndoRecomputeIsNoOp ==
    [][\A t \in Tasks :
          /\ (/\ op[t].pc = "delete" /\ failures' = failures
              /\ ConsistentStore(store)
              /\ \E r \in store :
                    r.id = op[t].id /\ r.trade_number = Cardinality(store))
             => /\ store' = {r \in store : r.trade_number < Cardinality(store)}
                /\ ConsistentStore(store')
          /\ (/\ op[t].kind = "undo" /\ op[t].pc = "fetch"
              /\ ConsistentStore(store))
             => /\ op'[t].pc = "upsert"
                /\ Upsert(store, op'[t].payload) = store
          /\ (/\ op[t].kind = "undo" /\ op[t].pc = "upsert"
              /\ op'[t].pc = "select"
              /\ ConsistentStore(store))
             => store' = store]_vars

\* an Undo of record #2 of two has been persisted
C26_Witness ==
    \E t \in Tasks :
        /\ op[t].kind = "undo" /\ op[t].pc = "select"
        /\ failures = 0
        /\ Len(trades) = 2
        /\ Cardinality(store) = 1
        /\ ConsistentStore(store)
        /\ \E r \in store : r.id = trades[2].id /\ r = trades[2]

\* the local view agrees with the rows S: `trades` holds them,
\* highest trade_number first, and the displayed balances are those of a
\* row with the highest trade_number, or the starting state
AgreesWith(S) ==
    /\ trades \in DescOrders(S)
    /\ IF S = {}
       THEN /\ stats.rollPot = Dollars(0)
            /\ stats.bankTotal = Dollars(3000)
            /\ stats.totalWealth = Dollars(3000)
       ELSE \E r \in S :
               /\ \A q \in S : q.trade_number <= r.trade_number
               /\ stats.rollPot = r.roll_pot_after
               /\ stats.bankTotal = r.bank_total_after
               /\ stats.totalWealth = r.total_wealth_after

Agrees == AgreesWith(store)

AddOnAgreedStore(t) ==
    /\ op[t].kind = "add"
    /\ Newest(store) # {}
    /\ ConsistentStore(store \ Newest(store))
    /\ AgreesWith(store \ Newest(store))

\* C30: when the local view agrees with a consistent store, the
\* recomputeAll that follows the insert of an Add does not reject the fetched
\* history, and the derived fields it returns for the inserted row, and the
\* ones its upsert stores, are those handleAddTrade inserted.
C30_ValidatedAddIsNotRejected ==
    [][\A t \in Tasks :
          /\ (AddOnAgreedStore(t) /\ op[t].pc = "fetch" /\ failures' = failures)
             => /\ op'[t].pc = "upsert"
                /\ \A r \in Newest(store) :
                      \E i \in 1..Len(op'[t].payload) :
                          /\ op'[t].payload[i].id = r.id
                          /\ Derived(op'[t].payload[i]) = Derived(r)
          /\ (AddOnAgreedStore(t) /\ op[t].pc = "upsert" /\ op'[t].pc = "select")
             => \A r \in Newest(store) :
                   \E q \in store' : q.id = r.id /\ Derived(q) = Derived(r)]_vars

\* the second Add of a run has been persisted, its stake taken from the
\* Roll Pot
C30_Witness ==
    \E t \in Tasks :
        /\ op[t].kind = "add" /\ op[t].pc = "select"
        /\ failures = 0
        /\ AddOnAgreedStore(t)
        /\ Cardinality(store) = 2
        /\ \E r \in store : r.trade_number = 1 /\ r.roll_pot_after > 0


====
